---- MODULE Spec2Model ----
(***************************************************************************)
(* A model of the SeedDream MCP server of src/index.ts: the process        *)
(* start-up (FAL_KEY check), the tool-listing handler and the tool-call    *)
(* handler with its two tools, generate_image and generate_image_batch.    *)
(*                                                                         *)
(* JavaScript values are tagged records [t, s, n]: t is the typeof tag,    *)
(* s the text of a string, n the value of a number.  guidance_scale is a   *)
(* fractional number in the source; the model counts it in tenths          *)
(* (2.5 is 25, 20.0 is 200).                                               *)
(*                                                                         *)
(* A handler runs to its first await in one step (JavaScript runs a        *)
(* callback to completion); the upstream service settles each call in a    *)
(* step of its own; the handler resumes after its await in another step.   *)
(***************************************************************************)
EXTENDS Integers, Sequences, FiniteSets, TLC

VARIABLES
    proc,       \* "starting" | "running" | "exited": the node process
    falKey,     \* whether process.env.FAL_KEY is set
    pc,         \* "idle" | "single_wait" | "batch_wait" | "done" | "thrown"
    req,        \* the tools/call request being served
    calls,      \* the fal.subscribe calls the request issued, in issue order
    results,    \* the array Promise.allSettled resolved with (batch)
    result,     \* what the tool-call handler returned (or threw)
    listReply   \* the tools/list reply sent since the last tools/call arrived

vars == <<proc, falKey, pc, req, calls, results, result, listReply>>

-----------------------------------------------------------------------------
(* Bounds of the model *)

\* the longest prompts array a batch request is drawn with
MaxPrompts == 6

\* the most images one upstream response carries
MaxImages == 2

\* the most queue updates delivered while one upstream call is in flight
MaxUpdates == 2

-----------------------------------------------------------------------------
(* JavaScript values *)

Undef == [t |-> "undefined", s |-> "", n |-> 0]

Str(x) == [t |-> "string", s |-> x, n |-> 0]

Num(x) == [t |-> "number", s |-> "", n |-> x]

\* ToBoolean of a value: undefined, "" and 0 are falsy
Truthy(v) ==
    \/ v.t = "string" /\ v.s # ""
    \/ v.t = "number" /\ v.n # 0

\* a ?? b: the default only for an absent value, so 0 and "" are kept
OrElse_Nullish(a, b) == IF a.t = "undefined" THEN b ELSE a

\* a || b
OrElse(a, b) == IF Truthy(a) THEN a ELSE b

\* a destructuring default: b only when a is undefined
DefaultTo(a, b) == IF a.t = "undefined" THEN b ELSE a

-----------------------------------------------------------------------------
(* Program constants *)

VALID_ASPECT_RATIOS == {"1:1", "3:4", "4:3", "16:9", "9:16", "2:3", "3:2", "21:9"}

\* Array.prototype.includes uses SameValueZero: only a string equals a string
IncludesRatio(v) == v.t = "string" /\ v.s \in VALID_ASPECT_RATIOS

\* VALID_ASPECT_RATIOS.join(', ') after the fixed text
InvalidAspectMessage ==
    "Invalid aspect ratio. Must be one of: 1:1, 3:4, 4:3, 16:9, 9:16, 2:3, 3:2, 21:9"

PromptRequiredMessage == "Prompt is required and must be a string"

PromptsRequiredMessage == "Prompts array is required and must not be empty"

TooManyPromptsMessage == "Maximum 5 prompts allowed per batch request"

NoImagesMessage == "No images were generated"

\* V8's TypeError for destructuring an undefined value
DestructureMessage ==
    "Cannot destructure property 'prompts' of 'request.params.arguments' as it is undefined."

\* V8's TypeError for item.images.forEach with item.images undefined
ForEachOfUndefinedMessage == "Cannot read properties of undefined (reading 'forEach')"

NoError == "<no error>"

MaxBatchPrompts == 5

\* guidance_scale default 2.5, in tenths
DefaultGuidanceTenths == 25

DefaultNumImages == 1

DefaultAspectRatio == Str("1:1")

ToolNames == <<"generate_image", "generate_image_batch">>

-----------------------------------------------------------------------------
(* Requests *)

NotArray(tag) == [t |-> tag, a |-> <<>>]

Arr(seq) == [t |-> "array", a |-> seq]

Request(name, hasArgs, prompt, prompts, ar, g, n, s) ==
    [name |-> name, hasArgs |-> hasArgs, prompt |-> prompt, prompts |-> prompts,
     aspect_ratio |-> ar, guidance_scale |-> g, num_images |-> n, seed |-> s]

NoRequest ==
    Request("", FALSE, Undef, NotArray("undefined"), Undef, Undef, Undef, Undef)

\* request.params.arguments || {} : a missing arguments object reads as all undefined
SingleReq(prompt, ar, g, n, s) ==
    Request("generate_image", TRUE, prompt, NotArray("undefined"), ar, g, n, s)

BatchReq(prompts, ar, g) ==
    Request("generate_image_batch", TRUE, Undef, prompts, ar, g, Undef, Undef)

PromptInputs == {Undef, Str(""), Str("p1"), Num(7)}

AspectInputs ==
    {Undef, Str(""), Str("5:4"), Num(7)} \cup {Str(r) : r \in VALID_ASPECT_RATIOS}

BatchAspectInputs == {Undef, Str(""), Str("5:4"), Str("16:9")}

GuidanceInputs == {Undef, Num(0), Num(75), Num(250)}

NumImagesInputs == {Undef, Num(0), Num(2), Num(9)}

SeedInputs == {Undef, Num(0), Num(42), Num(-1)}

\* n distinct text prompts p1 .. pn
TextPrompts(n) == [i \in 1..n |-> Str("p" \o ToString(i))]

\* the same with an empty string second and a number third
MixedPrompts(n) ==
    [i \in 1..n |-> IF i = 2 THEN Str("") ELSE IF i = 3 THEN Num(7)
                    ELSE Str("p" \o ToString(i))]

ShortPromptsInputs ==
    {NotArray("undefined"), NotArray("string"), NotArray("object")}
        \cup {Arr(TextPrompts(n)) : n \in 0..2}
        \cup {Arr(MixedPrompts(n)) : n \in 2..3}

LongPromptsInputs ==
    {Arr(TextPrompts(n)) : n \in 3..MaxPrompts}

SingleRequests ==
    {SingleReq(p, ar, g, n, s) :
        p \in PromptInputs, ar \in AspectInputs, g \in GuidanceInputs,
        n \in NumImagesInputs, s \in SeedInputs}
    \cup {[NoRequest EXCEPT !.name = "generate_image"]}

BatchRequests ==
    {BatchReq(ps, ar, g) :
        ps \in ShortPromptsInputs, ar \in BatchAspectInputs, g \in GuidanceInputs}
    \cup {BatchReq(ps, Undef, Undef) : ps \in LongPromptsInputs}
    \cup {[NoRequest EXCEPT !.name = "generate_image_batch"]}

UnknownRequests ==
    {[NoRequest EXCEPT !.name = "edit_image"],
     [SingleReq(Str("p1"), Undef, Undef, Undef, Undef) EXCEPT !.name = "edit_image"]}

-----------------------------------------------------------------------------
(* The upstream service: what a fal.subscribe call settles with *)

Image(i) ==
    [url |-> "u" \o ToString(i),
     width |-> IF i = 1 THEN 1024 ELSE 0,
     height |-> IF i = 1 THEN 1024 ELSE 0]

Outcome(ok, isErrorObj, message, hasImages, images, seed) ==
    [ok |-> ok, isErrorObj |-> isErrorObj, message |-> message,
     hasImages |-> hasImages, images |-> images, seed |-> seed]

NoOutcome == Outcome(FALSE, FALSE, "", FALSE, <<>>, 0)

\* rejected with an Error
RejectedError(msg) == Outcome(FALSE, TRUE, msg, FALSE, <<>>, 0)

\* rejected with a reason that is not an Error
RejectedOther == Outcome(FALSE, FALSE, "", FALSE, <<>>, 0)

\* fulfilled with data {images: [k images], seed}
Fulfilled(k) == Outcome(TRUE, FALSE, "", TRUE, [i \in 1..k |-> Image(i)], 100 + k)

\* fulfilled with data that has no images field
FulfilledNoList == Outcome(TRUE, FALSE, "", FALSE, <<>>, 99)

Outcomes ==
    {RejectedError("quota exceeded"), RejectedOther, FulfilledNoList}
        \cup {Fulfilled(k) : k \in 0..MaxImages}

-----------------------------------------------------------------------------
(* The handlers' computations *)

Payload(prompt, ar, g, n, hasSeed, seed) ==
    [prompt |-> prompt, aspect_ratio |-> ar, guidance_scale |-> g,
     num_images |-> n, hasSeed |-> hasSeed, seed |-> seed]

\* the image_size of a payload: the payload has no such field, only prompt,
\* aspect_ratio, guidance_scale, num_images and (when given) seed
ImageSizeSent(input) == [present |-> FALSE, width |-> 0, height |-> 0]

\* an upstream call in flight: its input, its outcome once settled, the queue
\* updates delivered to its onQueueUpdate callback and the lines the callback
\* wrote to stderr
Call(input) ==
    [input |-> input, state |-> "pending", out |-> NoOutcome,
     updates |-> <<>>, logged |-> <<>>]

\* a queue update of the fal client: its status and its logs (possibly absent)
QueueUpdate(status, hasLogs, logs) ==
    [status |-> status, hasLogs |-> hasLogs, logs |-> logs]

QueueUpdates ==
    {QueueUpdate("IN_QUEUE", FALSE, <<>>),
     QueueUpdate("IN_PROGRESS", FALSE, <<>>),
     QueueUpdate("IN_PROGRESS", TRUE, <<"step 1">>)}

\* the onQueueUpdate callback of generate_image: the messages of an
\* IN_PROGRESS update's logs go to stderr, nothing else is touched
OnQueueUpdate(call, u) ==
    [call EXCEPT
        !.updates = Append(@, u),
        !.logged = IF u.status = "IN_PROGRESS" /\ u.hasLogs
                   THEN @ \o [k \in 1..Len(u.logs) |-> "[SeedDream] " \o u.logs[k]]
                   ELSE @]

\* (request.params.arguments || {}) as SeedDreamParams
SingleParams(r) ==
    IF r.hasArgs THEN r
    ELSE [r EXCEPT !.prompt = Undef, !.aspect_ratio = Undef, !.guidance_scale = Undef,
                   !.num_images = Undef, !.seed = Undef]

\* the two validations of generate_image: the message thrown, or NoError
SingleCheck(p) ==
    IF ~Truthy(p.prompt) \/ p.prompt.t # "string" THEN PromptRequiredMessage
    ELSE IF Truthy(p.aspect_ratio) /\ ~IncludesRatio(p.aspect_ratio)
         THEN InvalidAspectMessage
    ELSE NoError

\* SinglePayload with a seed of the handler's own (0) when the caller gave none
SinglePayload_ClientSeed(p) ==
    Payload(p.prompt,
            OrElse(p.aspect_ratio, DefaultAspectRatio),
            OrElse(p.guidance_scale, Num(DefaultGuidanceTenths)),
            OrElse(p.num_images, Num(DefaultNumImages)),
            TRUE,
            DefaultTo(p.seed, Num(0)))

SinglePayload(p) ==
    Payload(p.prompt,
            OrElse(p.aspect_ratio, DefaultAspectRatio),
            OrElse(p.guidance_scale, Num(DefaultGuidanceTenths)),
            OrElse(p.num_images, Num(DefaultNumImages)),
            p.seed.t # "undefined",
            p.seed)

\* SingleSync with the aspect ratio validated only after fal.subscribe was called
SingleSync_CallFirst(r) ==
    LET p == SingleParams(r)
        e == SingleCheck(p)
    IN  IF e = PromptRequiredMessage THEN [error |-> e, issued |-> <<>>]
        ELSE [error |-> e, issued |-> <<SinglePayload(p)>>]

\* generate_image up to its await: the error thrown (if any) and the calls issued
SingleSync(r) ==
    LET p == SingleParams(r)
        e == SingleCheck(p)
    IN  IF e # NoError THEN [error |-> e, issued |-> <<>>]
        ELSE [error |-> NoError, issued |-> <<SinglePayload(p)>>]

\* BatchArgs with || defaults (aspect_ratio || "1:1", guidance_scale || 2.5)
BatchArgs_OrDefaults(r) ==
    [prompts |-> r.prompts,
     aspect_ratio |-> OrElse(r.aspect_ratio, DefaultAspectRatio),
     guidance_scale |-> OrElse(r.guidance_scale, Num(DefaultGuidanceTenths))]

\* const { prompts, aspect_ratio = "1:1", guidance_scale = 2.5 } = arguments
BatchArgs(r) ==
    [prompts |-> r.prompts,
     aspect_ratio |-> DefaultTo(r.aspect_ratio, DefaultAspectRatio),
     guidance_scale |-> DefaultTo(r.guidance_scale, Num(DefaultGuidanceTenths))]

\* BatchCheck with the length limit off by one (prompts.length > 6)
BatchCheck_OffByOne(r) ==
    LET a == BatchArgs(r)
    IN  IF ~r.hasArgs THEN DestructureMessage
        ELSE IF a.prompts.t # "array" \/ Len(a.prompts.a) = 0
             THEN PromptsRequiredMessage
        ELSE IF Len(a.prompts.a) > MaxBatchPrompts + 1 THEN TooManyPromptsMessage
        ELSE IF ~IncludesRatio(a.aspect_ratio) THEN InvalidAspectMessage
        ELSE NoError

\* the destructuring and the three validations of generate_image_batch
BatchCheck(r) ==
    LET a == BatchArgs(r)
    IN  IF ~r.hasArgs THEN DestructureMessage
        ELSE IF a.prompts.t # "array" \/ Len(a.prompts.a) = 0
             THEN PromptsRequiredMessage
        ELSE IF Len(a.prompts.a) > MaxBatchPrompts THEN TooManyPromptsMessage
        ELSE IF ~IncludesRatio(a.aspect_ratio) THEN InvalidAspectMessage
        ELSE NoError

\* prompts.map(async (prompt, index) => fal.subscribe(..., {input: {...}}))
BatchInputs(a) ==
    [i \in 1..Len(a.prompts.a) |->
        Payload(a.prompts.a[i], a.aspect_ratio, a.guidance_scale, Num(1), FALSE, Undef)]

\* generate_image_batch up to its await
BatchSync(r) ==
    LET e == BatchCheck(r)
    IN  IF e # NoError THEN [error |-> e, issued |-> <<>>]
        ELSE [error |-> NoError, issued |-> BatchInputs(BatchArgs(r))]

-----------------------------------------------------------------------------
(* Results *)

NoResult == [isError |-> FALSE, kind |-> "none", text |-> "", report |-> <<>>]

\* the content array of a returned result: one text block, holding the error
\* text or the report
Content(res) ==
    IF res.kind \in {"error", "single", "batch"} THEN <<[type |-> "text"]>> ELSE <<>>

\* ErrorResult without the isError field
ErrorResult_NoFlag(prefix, message) ==
    [isError |-> FALSE, kind |-> "error", text |-> prefix \o message, report |-> <<>>]

\* return { content: [{type: "text", text}], isError: true }
ErrorResult(prefix, message) ==
    [isError |-> TRUE, kind |-> "error", text |-> prefix \o message, report |-> <<>>]

\* return { content: [{type: "text", text}] } : no isError field
Report(kind, report) ==
    [isError |-> FALSE, kind |-> kind, text |-> "", report |-> report]

\* the handler threw: the protocol layer gets the exception
Thrown(message) ==
    [isError |-> FALSE, kind |-> "thrown", text |-> message, report |-> <<>>]

SinglePrefix == "Error generating image: "

BatchPrefix == "Error in batch generation: "

\* CaughtMessage dropping the caught error's message
CaughtMessage_Generic(o) == "Unknown error occurred"

\* error instanceof Error ? error.message : 'Unknown error occurred'
CaughtMessage(o) == IF o.isErrorObj THEN o.message ELSE "Unknown error occurred"

\* the downloads the handler attempts for a response's images: none, the
\* report lists each image's URL as the upstream call returned it
DownloadAttempts(images) == <<>>

\* response.images.map((img, index) => ...)
ImageDescriptions(images) ==
    [i \in 1..Len(images) |->
        [index |-> i,
         hasDimensions |-> images[i].width # 0 /\ images[i].height # 0,
         width |-> images[i].width, height |-> images[i].height,
         url |-> images[i].url]]

\* SingleFinish with the await outside the try block: a rejection escapes
SingleFinish_NoCatch(r, call) ==
    LET o == call.out
    IN  IF call.state = "rejected" THEN Thrown(CaughtMessage(o))
        ELSE IF ~o.hasImages \/ Len(o.images) = 0
             THEN ErrorResult(SinglePrefix, NoImagesMessage)
        ELSE Report("single",
                    [count |-> Len(o.images),
                     prompt |-> SingleParams(r).prompt,
                     aspect_ratio |-> call.input.aspect_ratio,
                     guidance_scale |-> call.input.guidance_scale,
                     seed |-> o.seed,
                     images |-> ImageDescriptions(o.images)])

\* SingleFinish without the length test: only a missing image list is an error
SingleFinish_NoEmptyCheck(r, call) ==
    LET o == call.out
    IN  IF call.state = "rejected" THEN ErrorResult(SinglePrefix, CaughtMessage(o))
        ELSE IF ~o.hasImages THEN ErrorResult(SinglePrefix, NoImagesMessage)
        ELSE Report("single",
                    [count |-> Len(o.images),
                     prompt |-> SingleParams(r).prompt,
                     aspect_ratio |-> call.input.aspect_ratio,
                     guidance_scale |-> call.input.guidance_scale,
                     seed |-> o.seed,
                     images |-> ImageDescriptions(o.images)])

\* SingleFinish reading the callback's output: a rejection is reported with the
\* last log line received, when there is one
SingleFinish_LastLogAsError(r, call) ==
    LET o == call.out
    IN  IF call.state = "rejected"
        THEN ErrorResult(SinglePrefix,
                         IF call.logged # <<>> THEN call.logged[Len(call.logged)]
                         ELSE CaughtMessage(o))
        ELSE IF ~o.hasImages \/ Len(o.images) = 0
             THEN ErrorResult(SinglePrefix, NoImagesMessage)
        ELSE Report("single",
                    [count |-> Len(o.images),
                     prompt |-> SingleParams(r).prompt,
                     aspect_ratio |-> call.input.aspect_ratio,
                     guidance_scale |-> call.input.guidance_scale,
                     seed |-> o.seed,
                     images |-> ImageDescriptions(o.images)])

\* generate_image after its await, given the settled call
SingleFinish(r, call) ==
    LET o == call.out
    IN  IF call.state = "rejected" THEN ErrorResult(SinglePrefix, CaughtMessage(o))
        ELSE IF ~o.hasImages \/ Len(o.images) = 0
             THEN ErrorResult(SinglePrefix, NoImagesMessage)
        ELSE Report("single",
                    [count |-> Len(o.images),
                     prompt |-> SingleParams(r).prompt,
                     aspect_ratio |-> call.input.aspect_ratio,
                     guidance_scale |-> call.input.guidance_scale,
                     seed |-> o.seed,
                     images |-> ImageDescriptions(o.images)])

NoValue == [prompt |-> Undef, hasImages |-> FALSE, images |-> <<>>, seed |-> 0]

NoReason == [isErrorObj |-> FALSE, message |-> ""]

\* SettledEntry with generate_image's check in the mapped function: a response
\* with an empty image list rejects with 'No images were generated'
SettledEntry_EmptyRejects(c) ==
    IF c.state = "fulfilled" /\ ~(c.out.hasImages /\ Len(c.out.images) = 0)
    THEN [status |-> "fulfilled",
          value |-> [prompt |-> c.input.prompt, hasImages |-> c.out.hasImages,
                     images |-> c.out.images, seed |-> c.out.seed],
          reason |-> NoReason]
    ELSE [status |-> "rejected", value |-> NoValue,
          reason |-> IF c.state = "fulfilled"
                     THEN [isErrorObj |-> TRUE, message |-> NoImagesMessage]
                     ELSE [isErrorObj |-> c.out.isErrorObj, message |-> c.out.message]]

\* one entry of Promise.allSettled's array; a fulfilled value is {prompt, ...result.data}
SettledEntry(c) ==
    IF c.state = "fulfilled"
    THEN [status |-> "fulfilled",
          value |-> [prompt |-> c.input.prompt, hasImages |-> c.out.hasImages,
                     images |-> c.out.images, seed |-> c.out.seed],
          reason |-> NoReason]
    ELSE [status |-> "rejected", value |-> NoValue,
          reason |-> [isErrorObj |-> c.out.isErrorObj, message |-> c.out.message]]

\* AllSettled failing fast, as Promise.all would: every entry after the first
\* rejected one is reported rejected with that one's reason
AllSettled_FailFast(cs) ==
    [i \in 1..Len(cs) |->
        IF \E j \in 1..(i - 1) : cs[j].state = "rejected"
        THEN SettledEntry(cs[CHOOSE j \in 1..(i - 1) :
                                /\ cs[j].state = "rejected"
                                /\ \A k \in 1..(j - 1) : cs[k].state # "rejected"])
        ELSE SettledEntry(cs[i])]

\* Promise.allSettled: entry i is the outcome of call i
AllSettled(cs) == [i \in 1..Len(cs) |-> SettledEntry(cs[i])]

Indices(rs, status) ==
    SelectSeq([i \in 1..Len(rs) |-> i], LAMBDA i : rs[i].status = status)

\* results.forEach: the fulfilled values, in index order
Successful(rs) ==
    LET idx == Indices(rs, "fulfilled")
    IN  [k \in 1..Len(idx) |-> rs[idx[k]].value]

\* Failed taking the prompt at the entry's place in the failed list, not at
\* the index of the call that failed
Failed_ByPosition(rs, prompts) ==
    LET idx == Indices(rs, "rejected")
    IN  [k \in 1..Len(idx) |->
            [prompt |-> prompts[k],
             error |-> IF rs[idx[k]].reason.isErrorObj
                       THEN rs[idx[k]].reason.message ELSE "Unknown error"]]

\* results.forEach: the rejected entries, in index order, with prompts[index]
Failed(rs, prompts) ==
    LET idx == Indices(rs, "rejected")
    IN  [k \in 1..Len(idx) |->
            [prompt |-> prompts[idx[k]],
             error |-> IF rs[idx[k]].reason.isErrorObj
                       THEN rs[idx[k]].reason.message ELSE "Unknown error"]]

\* the "Successfully Generated Images" section; item.images.forEach throws a
\* TypeError when a fulfilled value has no images
SuccessSection(succ) ==
    [k \in 1..Len(succ) |->
        [prompt |-> succ[k].prompt, seed |-> succ[k].seed,
         urls |-> [j \in 1..Len(succ[k].images) |-> succ[k].images[j].url]]]

\* generate_image_batch after its await, given allSettled's array
BatchFinish(r, rs) ==
    LET a == BatchArgs(r)
        succ == Successful(rs)
        fail == Failed(rs, a.prompts.a)
    IN  IF \E k \in 1..Len(succ) : ~succ[k].hasImages
        THEN ErrorResult(BatchPrefix, ForEachOfUndefinedMessage)
        ELSE Report("batch",
                    [aspect_ratio |-> a.aspect_ratio,
                     guidance_scale |-> a.guidance_scale,
                     total |-> Len(a.prompts.a),
                     nSuccessful |-> Len(succ),
                     nFailed |-> Len(fail),
                     successful |-> SuccessSection(succ),
                     failed |-> fail])

-----------------------------------------------------------------------------
(* The state machine *)

Init ==
    /\ proc = "starting"
    /\ falKey \in BOOLEAN
    /\ pc = "idle"
    /\ req = NoRequest
    /\ calls = <<>>
    /\ results = <<>>
    /\ result = NoResult
    /\ listReply = <<>>

\* the module's top level: exit(1) without FAL_KEY, else connect the transport
Startup ==
    /\ proc = "starting"
    /\ proc' = IF falKey THEN "running" ELSE "exited"
    /\ UNCHANGED <<falKey, pc, req, calls, results, result, listReply>>

\* the ListToolsRequestSchema handler
ListTools ==
    /\ proc = "running"
    /\ listReply' = ToolNames
    /\ UNCHANGED <<proc, falKey, pc, req, calls, results, result>>

\* the protocol layer hands the handler one tools/call at a time
Accepting == proc = "running" /\ pc = "idle"

Serve(r, sync, prefix, waiting) ==
    /\ req' = r
    /\ calls' = [i \in 1..Len(sync.issued) |-> Call(sync.issued[i])]
    /\ results' = <<>>
    /\ listReply' = <<>>
    /\ IF sync.error # NoError
       THEN pc' = "done" /\ result' = ErrorResult(prefix, sync.error)
       ELSE pc' = waiting /\ result' = NoResult
    /\ UNCHANGED <<proc, falKey>>

\* case "generate_image", to the await of fal.subscribe
CallGenerateImage ==
    /\ Accepting
    /\ \E r \in SingleRequests : Serve(r, SingleSync(r), SinglePrefix, "single_wait")

\* case "generate_image_batch", to the await of Promise.allSettled
CallGenerateImageBatch ==
    /\ Accepting
    /\ \E r \in BatchRequests : Serve(r, BatchSync(r), BatchPrefix, "batch_wait")

\* default: throw new Error(`Unknown tool: ${request.params.name}`)
CallUnknownTool ==
    /\ Accepting
    /\ \E r \in UnknownRequests :
        /\ req' = r
        /\ calls' = <<>>
        /\ results' = <<>>
        /\ listReply' = <<>>
        /\ pc' = "thrown"
        /\ result' = Thrown("Unknown tool: " \o r.name)
    /\ UNCHANGED <<proc, falKey>>

\* the upstream service settles one call in flight
Settle ==
    /\ proc = "running"
    /\ \E i \in 1..Len(calls) : \E o \in Outcomes :
        /\ calls[i].state = "pending"
        /\ calls' = [calls EXCEPT ![i] =
                        [@ EXCEPT !.state = IF o.ok THEN "fulfilled" ELSE "rejected",
                                  !.out = o]]
    /\ UNCHANGED <<proc, falKey, pc, req, results, result, listReply>>

\* fal.subscribe delivers a queue update to generate_image's callback while
\* the call is in flight (the batch passes no callback)
Notify ==
    /\ proc = "running"
    /\ pc = "single_wait"
    /\ calls[1].state = "pending"
    /\ Len(calls[1].updates) < MaxUpdates
    /\ \E u \in QueueUpdates : calls' = [calls EXCEPT ![1] = OnQueueUpdate(@, u)]
    /\ UNCHANGED <<proc, falKey, pc, req, results, result, listReply>>

\* SingleResume retrying once: a first rejection issues the call again
SingleResume_Retry ==
    /\ proc = "running"
    /\ pc = "single_wait"
    /\ calls[Len(calls)].state # "pending"
    /\ IF calls[Len(calls)].state = "rejected" /\ Len(calls) < 2
       THEN /\ calls' = Append(calls, Call(calls[1].input))
            /\ UNCHANGED <<pc, result>>
       ELSE /\ result' = SingleFinish(req, calls[Len(calls)])
            /\ pc' = "done"
            /\ UNCHANGED calls
    /\ UNCHANGED <<proc, falKey, req, results, listReply>>

\* generate_image resumes after await fal.subscribe(...)
SingleResume ==
    /\ proc = "running"
    /\ pc = "single_wait"
    /\ calls[1].state # "pending"
    /\ result' = SingleFinish(req, calls[1])
    /\ pc' = "done"
    /\ UNCHANGED <<proc, falKey, req, calls, results, listReply>>

\* a call the batch gave up on: rejected with a timeout error
TimedOut(c) ==
    IF c.state = "pending"
    THEN [c EXCEPT !.state = "rejected", !.out = RejectedError("timeout")]
    ELSE c

\* BatchResume with a timeout: the batch resumes once one call has settled and
\* counts the calls still in flight as failed
BatchResume_Timeout ==
    /\ proc = "running"
    /\ pc = "batch_wait"
    /\ \E i \in 1..Len(calls) : calls[i].state # "pending"
    /\ results' = AllSettled([i \in 1..Len(calls) |-> TimedOut(calls[i])])
    /\ result' = BatchFinish(req, results')
    /\ pc' = "done"
    /\ UNCHANGED <<proc, falKey, req, calls, listReply>>

\* generate_image_batch resumes after await Promise.allSettled(...)
BatchResume ==
    /\ proc = "running"
    /\ pc = "batch_wait"
    /\ \A i \in 1..Len(calls) : calls[i].state # "pending"
    /\ results' = AllSettled(calls)
    /\ result' = BatchFinish(req, AllSettled(calls))
    /\ pc' = "done"
    /\ UNCHANGED <<proc, falKey, req, calls, listReply>>

\* the protocol layer sends the reply (or the error); the call's locals are gone
Deliver ==
    /\ proc = "running"
    /\ pc \in {"done", "thrown"}
    /\ pc' = "idle"
    /\ req' = NoRequest
    /\ calls' = <<>>
    /\ results' = <<>>
    /\ result' = NoResult
    /\ UNCHANGED <<proc, falKey, listReply>>

Next ==
    \/ Startup
    \/ ListTools
    \/ CallGenerateImage
    \/ CallGenerateImageBatch
    \/ CallUnknownTool
    \/ Notify
    \/ Settle
    \/ SingleResume
    \/ BatchResume
    \/ Deliver

Spec == Init /\ [][Next]_vars

\* the continuation of an await runs once its promise has settled: the event
\* loop does not leave a resumable handler waiting forever.  Nothing is assumed
\* about the upstream service: a call may stay in flight forever.
LiveSpec ==
    /\ Init
    /\ [][Next]_vars
    /\ WF_vars(SingleResume)
    /\ WF_vars(BatchResume)

-----------------------------------------------------------------------------
(* Properties *)

KnownTools == {"generate_image", "generate_image_batch"}

IsBatch == req.name = "generate_image_batch"

IsSingle == req.name = "generate_image"

Returned == pc \in {"done", "thrown"}

Rejected == {i \in 1..Len(calls) : calls[i].state = "rejected"}

\* C1: a generate_image_batch call whose prompts value is not an array, is an
\* empty array or has 6 or more elements returns an error result, and the call
\* issues no upstream call at any point.
C1_BadPromptsRejected ==
    (/\ IsBatch
     /\ pc # "idle"
     /\ \/ req.prompts.t # "array"
        \/ Len(req.prompts.a) = 0
        \/ Len(req.prompts.a) >= 6)
    => /\ pc = "done"
       /\ result.kind = "error"
       /\ result.isError
       /\ calls = <<>>

C1_Witness ==
    /\ IsBatch
    /\ pc = "done"
    /\ req.prompts.t = "array"
    /\ Len(req.prompts.a) = 6
    /\ result.isError
    /\ calls = <<>>

\* C2 (as claimed): a validated batch of N prompts of which M were rejected
\* upstream returns a report with M failed entries, N - M successful entries
\* and header counts Successful + Failed = Total Prompts = N.
C2_Claim ==
    (IsBatch /\ pc = "done" /\ calls # <<>>)
    => /\ result.kind = "batch"
       /\ Len(result.report.failed) = Cardinality(Rejected)
       /\ Len(result.report.successful) = Len(calls) - Cardinality(Rejected)
       /\ result.report.nFailed = Cardinality(Rejected)
       /\ result.report.nSuccessful + result.report.nFailed = result.report.total
       /\ result.report.total = Len(req.prompts.a)
       /\ Len(calls) = Len(req.prompts.a)

\* C3, at the await: one call has been issued for every prompt, for that prompt.
C3_FanOut ==
    pc = "batch_wait"
    => /\ Len(calls) = Len(req.prompts.a)
       /\ \A i \in 1..Len(calls) : calls[i].input.prompt = req.prompts.a[i]

\* C3, after the await: the entry recorded for every prompt is its own call's
\* outcome, whatever the other calls did.
C3_Collected ==
    (IsBatch /\ pc = "done" /\ calls # <<>>)
    => /\ Len(results) = Len(calls)
       /\ \A i \in 1..Len(calls) :
            /\ results[i].status = calls[i].state
            /\ calls[i].state = "fulfilled"
               => /\ results[i].value.prompt = req.prompts.a[i]
                  /\ results[i].value.hasImages = calls[i].out.hasImages
                  /\ results[i].value.images = calls[i].out.images
                  /\ results[i].value.seed = calls[i].out.seed
            /\ calls[i].state = "rejected"
               => /\ results[i].reason.isErrorObj = calls[i].out.isErrorObj
                  /\ results[i].reason.message = calls[i].out.message

\* C3, every step: all the calls are issued, pending, in the step that reaches
\* the await; from then to the return no call is dropped, a settled call keeps
\* its outcome, and a step settles at most one call.
C3_Step ==
    /\ (pc = "idle" /\ pc' = "batch_wait")
       => /\ Len(calls') = Len(req'.prompts.a)
          /\ \A i \in 1..Len(calls') : calls'[i].state = "pending"
    /\ (pc = "batch_wait")
       => /\ Len(calls') = Len(calls)
          /\ \A i \in 1..Len(calls) :
                /\ calls'[i].input = calls[i].input
                /\ calls[i].state # "pending" => calls'[i] = calls[i]
          /\ Cardinality({i \in 1..Len(calls) : calls'[i] # calls[i]}) <= 1

\* C3: in a valid batch one upstream call is issued for every prompt before
\* any is awaited, and the failure of a call neither cancels, prevents nor
\* changes the recorded outcome of another prompt's call.
C3_IndependentOutcomes == [](C3_FanOut /\ C3_Collected) /\ [][C3_Step]_vars

C3_Witness ==
    /\ IsBatch
    /\ pc = "done"
    /\ Len(calls) >= 3
    /\ calls[1].state = "fulfilled"
    /\ calls[2].state = "rejected"
    /\ calls[3].state = "fulfilled"
    /\ results[1].status = "fulfilled"
    /\ results[2].status = "rejected"
    /\ results[3].status = "fulfilled"

\* the faults the handler's try blocks see: arguments missing, a validation
\* failing, the single upstream call rejected
SingleFault ==
    /\ IsSingle
    /\ \/ ~req.hasArgs
       \/ req.prompt.t # "string"
       \/ req.prompt.s = ""
       \/ Rejected # {}

BatchFault ==
    /\ IsBatch
    /\ \/ ~req.hasArgs
       \/ req.prompts.t # "array"
       \/ Len(req.prompts.a) = 0

\* C4 (as claimed): every fault raised while serving a tool call, for any
\* request that reaches the tool-call handler, is returned as a result with
\* the error flag, and no exception escapes the handler.
C4_Claim ==
    Returned
    => /\ result.kind # "thrown"
       /\ (SingleFault \/ BatchFault \/ req.name \notin KnownTools) => result.isError

\* C4 (amended): while serving generate_image or generate_image_batch every
\* exception is caught and returned as a result with the error flag; the
\* handler throws only for a request that names another tool.
C4_Amended ==
    Returned
    => /\ result.kind = "thrown" <=> req.name \notin KnownTools
       /\ req.name \in KnownTools
          => /\ result.kind \in {"error", "single", "batch"}
             /\ result.isError <=> result.kind = "error"
             /\ (SingleFault \/ BatchFault) => result.isError

C4_Witness ==
    /\ pc = "done"
    /\ IsSingle
    /\ Rejected # {}
    /\ result.kind = "error"
    /\ result.isError

\* C5 (as claimed): without FAL_KEY the process does not terminate, a
\* generate_image call returns a result with the error flag, and a tools/list
\* call made afterwards is answered.
C5_Claim ==
    ~falKey
    => /\ proc # "exited"
       /\ (IsSingle /\ Returned) => (result.kind = "error" /\ result.isError)

\* C6 (as claimed): once a batch has passed validation the handler returns the
\* aggregate report, never an error result, whatever each prompt's call did
\* (rejected, or fulfilled without an image list), with every prompt accounted for.
C6_Claim ==
    (IsBatch /\ pc = "done" /\ calls # <<>>)
    => /\ result.kind = "batch"
       /\ ~result.isError
       /\ result.report.nSuccessful + result.report.nFailed = Len(calls)

ValidationTexts ==
    {SinglePrefix \o PromptRequiredMessage,
     SinglePrefix \o InvalidAspectMessage,
     BatchPrefix \o PromptsRequiredMessage,
     BatchPrefix \o TooManyPromptsMessage,
     BatchPrefix \o InvalidAspectMessage}

\* C7: in both handlers a validation failure is detected before the first
\* upstream call: a call that ends in a validation error has issued no upstream
\* call, and a generate_image call without a text prompt never issues one.
C7_ValidationBeforeCalls ==
    /\ (Returned /\ result.kind = "error" /\ result.text \in ValidationTexts)
       => calls = <<>>
    /\ (IsSingle /\ pc # "idle" /\ (req.prompt.t # "string" \/ req.prompt.s = ""))
       => /\ calls = <<>>
          /\ pc = "done"
          /\ result.text = SinglePrefix \o PromptRequiredMessage

C7_Witness ==
    /\ IsSingle
    /\ pc = "done"
    /\ req.prompt = Str("p1")
    /\ req.aspect_ratio = Str("5:4")
    /\ result.text = SinglePrefix \o InvalidAspectMessage
    /\ calls = <<>>

\* the request's prompt (generate_image) or prompts (generate_image_batch)
\* pass their own validation
PromptsAccepted ==
    \/ IsSingle /\ req.prompt.t = "string" /\ req.prompt.s # ""
    \/ IsBatch /\ req.prompts.t = "array" /\ Len(req.prompts.a) \in 1..5

\* C8 (as claimed): a supplied aspect-ratio token that is one of the eight
\* valid ones passes validation and is used unchanged; any other supplied
\* token, the empty string included, yields an error result whose message
\* lists the valid set.
C8_Claim ==
    (/\ req.name \in KnownTools
     /\ pc # "idle"
     /\ PromptsAccepted
     /\ req.aspect_ratio.t # "undefined")
    => IF req.aspect_ratio.t = "string" /\ req.aspect_ratio.s \in VALID_ASPECT_RATIOS
       THEN /\ calls # <<>>
            /\ \A i \in 1..Len(calls) : calls[i].input.aspect_ratio = req.aspect_ratio
       ELSE /\ pc = "done"
            /\ result.isError
            /\ result.text \in {SinglePrefix \o InvalidAspectMessage,
                                BatchPrefix \o InvalidAspectMessage}

\* C9 (as claimed): every numeric field of a request that reaches the upstream
\* service is within its documented range: num_images in 1..4, guidance_scale
\* in 1.0..20.0 (10..200 tenths), seed in 0..2147483647.
C9_Claim ==
    \A i \in 1..Len(calls) :
        /\ calls[i].input.num_images.n \in 1..4
        /\ calls[i].input.guidance_scale.n \in 10..200
        /\ calls[i].input.hasSeed => calls[i].input.seed.n \in 0..2147483647

\* C10 (as claimed): the prompt of every upstream call is non-empty text.
C10_Claim ==
    \A i \in 1..Len(calls) :
        /\ calls[i].input.prompt.t = "string"
        /\ calls[i].input.prompt.s # ""

\* C11: in generate_image, an upstream call that fulfils with no image list or
\* with an empty image list ends in an error result with the 'no images'
\* message, never in a success report.
C11_NoImagesIsError ==
    (/\ IsSingle
     /\ pc = "done"
     /\ calls # <<>>
     /\ calls[1].state = "fulfilled"
     /\ (~calls[1].out.hasImages \/ Len(calls[1].out.images) = 0))
    => /\ result.kind = "error"
       /\ result.isError
       /\ result.text = "Error generating image: No images were generated"

C11_Witness ==
    /\ IsSingle
    /\ pc = "done"
    /\ calls # <<>>
    /\ calls[1].state = "fulfilled"
    /\ calls[1].out.hasImages
    /\ Len(calls[1].out.images) = 0
    /\ result.isError

\* C12: a generate_image call without a seed sends no seed field upstream, and
\* the report's 'Seed Used' is the seed the upstream call returned; a seed in
\* the payload is always the caller's.
C12_SeedFromUpstream ==
    /\ (IsSingle /\ calls # <<>>)
       => /\ calls[1].input.hasSeed <=> req.seed.t # "undefined"
          /\ calls[1].input.hasSeed => calls[1].input.seed = req.seed
    /\ (IsSingle /\ pc = "done" /\ result.kind = "single")
       => result.report.seed = calls[1].out.seed

C12_Witness ==
    /\ IsSingle
    /\ pc = "done"
    /\ result.kind = "single"
    /\ req.seed.t = "undefined"
    /\ ~calls[1].input.hasSeed
    /\ result.report.seed = 101

\* the calls of the request in the given state, as a set of indices
CallsIn(state) == {i \in 1..Len(calls) : calls[i].state = state}

\* the k-th smallest element of a set of indices
Kth(S, k) == CHOOSE i \in S : Cardinality({j \in S : j < i}) = k - 1

\* C13: in the batch outcome the successful and the failed partition are each
\* ordered by original prompt index, whatever the order the calls completed
\* in, and each failed entry carries the prompt at the index of its call.
C13_PartitionsOrdered ==
    (IsBatch /\ pc = "done" /\ calls # <<>>)
    => LET succ == Successful(results)
           fail == Failed(results, req.prompts.a)
           ful == CallsIn("fulfilled")
           rej == CallsIn("rejected")
       IN  /\ Len(succ) = Cardinality(ful)
           /\ Len(fail) = Cardinality(rej)
           /\ \A k \in 1..Len(succ) :
                /\ succ[k].prompt = req.prompts.a[Kth(ful, k)]
                /\ succ[k].seed = calls[Kth(ful, k)].out.seed
           /\ \A k \in 1..Len(fail) :
                /\ fail[k].prompt = req.prompts.a[Kth(rej, k)]
                /\ fail[k].error = IF calls[Kth(rej, k)].out.isErrorObj
                                   THEN calls[Kth(rej, k)].out.message
                                   ELSE "Unknown error"
           /\ result.kind = "batch"
              => /\ result.report.failed = fail
                 /\ Len(result.report.successful) = Len(succ)
                 /\ \A k \in 1..Len(succ) :
                        result.report.successful[k].prompt = succ[k].prompt

C13_Witness ==
    /\ IsBatch
    /\ pc = "done"
    /\ result.kind = "batch"
    /\ Len(calls) >= 4
    /\ calls[1].state = "fulfilled"
    /\ calls[2].state = "rejected"
    /\ calls[3].state = "fulfilled"
    /\ calls[4].state = "rejected"
    /\ result.report.failed[1].prompt = Str("p2")
    /\ result.report.failed[2].prompt = Str("p4")
    /\ result.report.successful[2].prompt = Str("p3")

\* C14: when the single upstream call of generate_image fails, the handler
\* returns exactly one error result: the error flag is set and the text is the
\* fixed prefix followed by the upstream Error's message unchanged (a rejection
\* reason that is not an Error has no message to report and reads 'Unknown
\* error occurred').
C14_UpstreamFailureReported ==
    (IsSingle /\ pc = "done" /\ calls # <<>> /\ calls[1].state = "rejected")
    => /\ Len(calls) = 1
       /\ result.kind = "error"
       /\ result.isError
       /\ calls[1].out.isErrorObj
          => result.text = "Error generating image: " \o calls[1].out.message
       /\ ~calls[1].out.isErrorObj
          => result.text = "Error generating image: Unknown error occurred"

C14_Witness ==
    /\ IsSingle
    /\ pc = "done"
    /\ calls # <<>>
    /\ calls[1].state = "rejected"
    /\ calls[1].out.isErrorObj
    /\ result.text = "Error generating image: quota exceeded"
    /\ result.isError

\* C15 (as claimed): for a generation result with several images a download is
\* attempted for every image, in image order, and the call is still reported
\* as a success.
C15_Claim ==
    (IsSingle /\ pc = "done" /\ result.kind = "single")
    => LET images == calls[1].out.images
           tried == DownloadAttempts(images)
       IN  /\ Len(tried) = Len(images)
           /\ \A i \in 1..Len(images) : tried[i].url = images[i].url

\* C16 (as claimed): the size of a request is resolved to a width and a height
\* in 1024..4096, square_1280 = 1280x1280 when the request gives no size (no
\* request of the two tools gives one), and the call is made with it.
C16_Claim ==
    \A i \in 1..Len(calls) :
        ImageSizeSent(calls[i].input) = [present |-> TRUE, width |-> 1280, height |-> 1280]

\* the operation failed: validation stopped it before any call, or (for
\* generate_image) its call was rejected or brought no image, or (for
\* generate_image_batch) the report could not be written for a fulfilled call
\* without an image list
OperationFailed ==
    \/ calls = <<>>
    \/ /\ IsSingle
       /\ \/ calls[1].state = "rejected"
          \/ ~calls[1].out.hasImages
          \/ Len(calls[1].out.images) = 0
    \/ /\ IsBatch
       /\ \E i \in 1..Len(calls) :
            calls[i].state = "fulfilled" /\ ~calls[i].out.hasImages

\* C17: every result returned by generate_image or generate_image_batch, on
\* success and on every error path, is exactly one text content block with an
\* error indicator, and the indicator is set exactly when the operation failed.
C17_UniformResult ==
    (pc = "done" /\ req.name \in KnownTools)
    => /\ Len(Content(result)) = 1
       /\ Content(result)[1].type = "text"
       /\ result.kind \in {"error", "single", "batch"}
       /\ result.isError <=> OperationFailed
       /\ result.isError <=> result.kind = "error"

C17_Witness ==
    /\ IsBatch
    /\ pc = "done"
    /\ req.aspect_ratio = Str("5:4")
    /\ calls = <<>>
    /\ result.isError
    /\ Len(Content(result)) = 1

\* the call in service ended in a validation error (or had no arguments)
EndedInValidation ==
    /\ pc = "done"
    /\ result.kind = "error"
    /\ result.text \in ValidationTexts \cup {BatchPrefix \o DestructureMessage}

\* C18, every state: a validated generate_image call has issued exactly one
\* upstream call and a validated batch of N prompts exactly N, one per prompt.
C18_Counts ==
    /\ (IsSingle /\ pc \in {"single_wait", "done"})
       => Len(calls) = IF EndedInValidation THEN 0 ELSE 1
    /\ (IsBatch /\ pc \in {"batch_wait", "done"})
       => /\ Len(calls) = IF EndedInValidation THEN 0 ELSE Len(req.prompts.a)
          /\ \A i \in 1..Len(calls) : calls[i].input.prompt = req.prompts.a[i]

\* C18, every step: while a call is served no upstream call is added, and a
\* settled call is not put in flight again.
C18_Step ==
    pc \in {"single_wait", "batch_wait"}
    => /\ Len(calls') = Len(calls)
       /\ \A i \in 1..Len(calls) :
            calls[i].state # "pending" => calls'[i].state = calls[i].state

\* C18: no upstream call is ever retried, whether the calls succeed or fail.
C18_NoRetry == []C18_Counts /\ [][C18_Step]_vars

C18_Witness ==
    /\ IsBatch
    /\ pc = "done"
    /\ Len(req.prompts.a) = 5
    /\ Len(calls) = 5
    /\ \A i \in 1..5 : calls[i].state = "rejected"

\* the settings a batch request asks for: what it supplies, 1:1 and 2.5 for
\* what it omits
AskedAspectRatio ==
    IF req.aspect_ratio = Undef THEN Str("1:1") ELSE req.aspect_ratio

AskedGuidance ==
    IF req.guidance_scale = Undef THEN Num(DefaultGuidanceTenths)
    ELSE req.guidance_scale

\* C19: every upstream call of one batch carries the same aspect_ratio and
\* guidance_scale (the supplied values, or 1:1 and 2.5 when omitted), asks for
\* exactly one image, and the report header shows these same values.
C19_SettingsResolvedOnce ==
    (IsBatch /\ calls # <<>>)
    => /\ \A i \in 1..Len(calls) :
            /\ calls[i].input.aspect_ratio = AskedAspectRatio
            /\ calls[i].input.guidance_scale = AskedGuidance
            /\ calls[i].input.num_images = Num(1)
       /\ result.kind = "batch"
          => /\ result.report.aspect_ratio = AskedAspectRatio
             /\ result.report.guidance_scale = AskedGuidance

C19_Witness ==
    /\ IsBatch
    /\ pc = "done"
    /\ result.kind = "batch"
    /\ Len(calls) = 2
    /\ req.aspect_ratio = Str("16:9")
    /\ req.guidance_scale = Num(0)
    /\ calls[1].input.guidance_scale = Num(0)
    /\ calls[2].input.aspect_ratio = Str("16:9")

Waiting == pc \in {"single_wait", "batch_wait"}

InFlight == {i \in 1..Len(calls) : calls[i].state = "pending"}

\* C20, first half: in a behaviour where every upstream call eventually
\* settles (again and again no call is in flight), a tool call that waits for
\* the upstream service eventually returns a result.
C20_Returns == ([]<>(InFlight = {})) => (Waiting ~> (pc = "done"))

\* C20, second half, every step: a handler with an upstream call in flight
\* stays waiting, whatever the state of the sibling calls; the only step that
\* ends the wait is taken with every call settled.
C20_WaitsForAll ==
    /\ (Waiting /\ InFlight # {}) => (pc' = pc /\ result' = NoResult)
    /\ (Waiting /\ pc' # pc) => (InFlight = {} /\ calls' = calls)

\* C20: the handlers have no timeout and no cancellation.  If every upstream
\* call of a tool call eventually settles the tool call eventually returns; a
\* batch with a call that never settles never returns, even when all its
\* sibling calls have settled.
C20_NoTimeout == C20_Returns /\ [][C20_WaitsForAll]_vars

C20_Witness ==
    /\ pc = "batch_wait"
    /\ Len(calls) = 3
    /\ InFlight = {2}
    /\ calls[1].state = "fulfilled"
    /\ calls[3].state = "rejected"
    /\ result = NoResult

\* the call of the generate_image in service as it would stand had it settled
\* the same way without any queue update delivered
WithoutUpdates ==
    [Call(calls[1].input) EXCEPT !.state = calls[1].state, !.out = calls[1].out]

\* C21, every state: the result a generate_image call returns is the one the
\* same arguments and the same upstream outcome give with no queue update at
\* all, whatever updates were delivered.
C21_SameResult ==
    (IsSingle /\ pc = "done" /\ calls # <<>>)
    => result = SingleFinish(req, WithoutUpdates)

\* C21, every step: the delivery of a queue update changes neither the
\* handler's position nor its result, its request or the call's outcome.
C21_Step ==
    (/\ Len(calls) = 1
     /\ Len(calls') = 1
     /\ calls'[1].updates # calls[1].updates)
    => /\ pc' = pc
       /\ result' = result
       /\ req' = req
       /\ calls'[1].input = calls[1].input
       /\ calls'[1].state = calls[1].state
       /\ calls'[1].out = calls[1].out

\* C21: queue updates received while generate_image's upstream call is in
\* flight are purely observational: for the same arguments and the same final
\* upstream outcome the returned result is the same for every number, order
\* and content of updates.
C21_Observational == []C21_SameResult /\ [][C21_Step]_vars

C21_Witness ==
    /\ IsSingle
    /\ pc = "done"
    /\ result.kind = "single"
    /\ Len(calls[1].updates) = 2
    /\ calls[1].updates[1].status = "IN_PROGRESS"
    /\ calls[1].updates[2].status = "IN_QUEUE"
    /\ calls[1].logged # <<>>

\* the calls of the batch that fulfilled with an empty image list
EmptyListed ==
    {i \in 1..Len(calls) :
        /\ calls[i].state = "fulfilled"
        /\ calls[i].out.hasImages
        /\ Len(calls[i].out.images) = 0}

\* C22: in generate_image_batch a call that fulfils with an empty image list
\* is in the successful partition: it is counted under Successful and listed
\* with its prompt and seed and no image line; it is never in the failed
\* partition and never turns the batch into a 'no images' error.
C22_EmptyListIsSuccess ==
    (IsBatch /\ pc = "done" /\ EmptyListed # {})
    => LET ful == CallsIn("fulfilled")
           rej == CallsIn("rejected")
       IN  /\ \A i \in EmptyListed : results[i].status = "fulfilled"
           /\ Len(Successful(results)) = Cardinality(ful)
           /\ Len(Failed(results, req.prompts.a)) = Cardinality(rej)
           /\ result.text # BatchPrefix \o NoImagesMessage
           /\ result.kind = "batch" <=> (\A i \in ful : calls[i].out.hasImages)
           /\ result.kind = "batch"
              => /\ ~result.isError
                 /\ result.report.nSuccessful = Cardinality(ful)
                 /\ result.report.nFailed = Cardinality(rej)
                 /\ Len(result.report.failed) = Cardinality(rej)
                 /\ \A k \in 1..Cardinality(ful) :
                        Kth(ful, k) \in EmptyListed
                        => /\ result.report.successful[k].prompt
                                = req.prompts.a[Kth(ful, k)]
                           /\ result.report.successful[k].seed
                                = calls[Kth(ful, k)].out.seed
                           /\ result.report.successful[k].urls = <<>>

C22_Witness ==
    /\ IsBatch
    /\ pc = "done"
    /\ result.kind = "batch"
    /\ Len(calls) = 3
    /\ EmptyListed = {2}
    /\ calls[1].state = "rejected"
    /\ calls[3].state = "fulfilled"
    /\ result.report.nSuccessful = 2
    /\ result.report.successful[1].urls = <<>>

\* the generate_image request in service is one whose prompt or aspect ratio
\* the handler refuses
SingleRefusable ==
    \/ ~req.hasArgs
    \/ req.prompt.t # "string"
    \/ req.prompt.s = ""
    \/ /\ req.aspect_ratio \notin {Undef, Str("")}
       /\ req.aspect_ratio \notin {Str(x) : x \in VALID_ASPECT_RATIOS}

\* C23: generate_image does not reject a guidance_scale of 0 or a num_images
\* of 0 but sends the default (2.5, 1) in its place; other supplied values go
\* upstream as given; a seed of 0 is sent unchanged, and the payload has a seed
\* exactly when the caller supplied one.
C23_ZeroBecomesDefault ==
    (IsSingle /\ pc \in {"single_wait", "done"})
    => /\ calls = <<>> <=> SingleRefusable
       /\ calls # <<>>
          => /\ calls[1].input.guidance_scale =
                    IF req.guidance_scale \in {Undef, Num(0)}
                    THEN Num(DefaultGuidanceTenths) ELSE req.guidance_scale
             /\ calls[1].input.num_images =
                    IF req.num_images \in {Undef, Num(0)}
                    THEN Num(DefaultNumImages) ELSE req.num_images
             /\ calls[1].input.hasSeed <=> req.seed # Undef
             /\ calls[1].input.hasSeed => calls[1].input.seed = req.seed

C23_Witness ==
    /\ IsSingle
    /\ pc = "done"
    /\ result.kind = "single"
    /\ req.guidance_scale = Num(0)
    /\ req.num_images = Num(0)
    /\ req.seed = Num(0)
    /\ calls[1].input.guidance_scale = Num(DefaultGuidanceTenths)
    /\ calls[1].input.num_images = Num(DefaultNumImages)
    /\ calls[1].input.hasSeed
    /\ calls[1].input.seed = Num(0)

====
